---- MODULE Spec2Model ----
(***************************************************************************)
(* fix_auth.py: a one-shot patcher.  It reads server_with_auth.cpp, finds  *)
(* every occurrence of a stub user_id assignment, replaces each by an      *)
(* authentication guard built around the next "response = ...;" statement, *)
(* writes the text back and prints an acknowledgment.                      *)
(*                                                                         *)
(* Texts are sequences of one-character strings.  Offsets are Python's:    *)
(* 0-based, -1 for "not found".                                            *)
(***************************************************************************)
EXTENDS Integers, Sequences, FiniteSets

\* Longest input file, counted in chunks, of a single invocation.
MaxChunks == 5

\* Longest input file, counted in chunks, of two concurrent invocations.
MaxRaceChunks == 3

----------------------------------------------------------------------------
(* String literals of the script *)

\* line 10: the anchor, a regular expression without metacharacters
pattern ==
    << "s", "t", "d", ":", ":", "s", "t", "r", "i", "n", "g", " ",
       "u", "s", "e", "r", "_", "i", "d", " ", "=", " ", "\"", "a",
       "u", "t", "h", "e", "n", "t", "i", "c", "a", "t", "e", "d",
       "_", "u", "s", "e", "r", "\"", ";", " ", "/", "/", " ", "T",
       "O", "D", "O", ":", " ", "E", "x", "t", "r", "a", "c", "t",
       " ", "f", "r", "o", "m", " ", "J", "W", "T" >>

\* lines 13 and 40
AuthCallLine ==
    << "s", "t", "d", ":", ":", "s", "t", "r", "i", "n", "g", " ",
       "u", "s", "e", "r", "_", "i", "d", " ", "=", " ", "a", "u",
       "t", "h", "e", "n", "t", "i", "c", "a", "t", "e", "_", "a",
       "n", "d", "_", "g", "e", "t", "_", "u", "s", "e", "r", "_",
       "i", "d", "(", "h", "e", "a", "d", "e", "r", "s", ")", ";" >>

\* lines 14 and 41
IfLine ==
    << "i", "f", " ", "(", "u", "s", "e", "r", "_", "i", "d", ".",
       "e", "m", "p", "t", "y", "(", ")", ")", " ", "{" >>

\* lines 15 and 42, after Python has processed the \" escapes (and {{ }} on line 42)
ErrLine ==
    << "r", "e", "s", "p", "o", "n", "s", "e", " ", "=", " ", "\"",
       "{", "\"", "e", "r", "r", "o", "r", "\"", ":", "\"", "U", "n",
       "a", "u", "t", "h", "o", "r", "i", "z", "e", "d", ":", " ",
       "I", "n", "v", "a", "l", "i", "d", " ", "o", "r", " ", "m",
       "i", "s", "s", "i", "n", "g", " ", "a", "u", "t", "h", "e",
       "n", "t", "i", "c", "a", "t", "i", "o", "n", " ", "t", "o",
       "k", "e", "n", "\"", "}", "\"", ";" >>

\* lines 16 and 43
ElseLine ==
    << "}", " ", "e", "l", "s", "e", " ", "{" >>

\* line 17
CommentLine ==
    << "/", "/", " ", "C", "o", "n", "t", "i", "n", "u", "e", " ",
       "w", "i", "t", "h", " ", "o", "r", "i", "g", "i", "n", "a",
       "l", " ", "l", "o", "g", "i", "c" >>

\* lines 18 and 33: the lexeme 'response ='
ResponseEq ==
    << "r", "e", "s", "p", "o", "n", "s", "e", " ", "=" >>

\* line 36: the terminator ';'
Semicolon ==
    << ";" >>

\* line 45
CloseBrace ==
    << "}" >>

NL == << "\n" >>

\* n spaces: the indentation inside the triple-quoted literals
Indent(n) == [i \in 1..n |-> " "]

\* lines 13-18: the fixed replacement text of the first, literal replace
replacement ==
    AuthCallLine \o NL \o Indent(20) \o IfLine \o NL \o Indent(24) \o ErrLine
    \o NL \o Indent(20) \o ElseLine \o NL \o Indent(24) \o CommentLine
    \o NL \o Indent(24) \o ResponseEq

----------------------------------------------------------------------------
(* Python string primitives *)

\* text[a:b]
Slice(text, a, b) == SubSeq(text, a + 1, b)

\* text.startswith(sub, i)
StartsWith(text, sub, i) ==
    /\ i + Len(sub) <= Len(text)
    /\ \A k \in 1..Len(sub) : text[i + k] = sub[k]

\* text.find(sub, start): the lowest offset >= start where sub occurs, or -1
Find(text, sub, start) ==
    LET hits == {i \in start..(Len(text) - Len(sub)) : StartsWith(text, sub, i)}
    IN  IF hits = {} THEN -1
        ELSE CHOOSE i \in hits : \A j \in hits : i <= j

\* the start offsets of the non-overlapping occurrences of sub, left to right,
\* as both str.replace and re.sub scan for them
RECURSIVE FindIter(_, _, _)
FindIter(text, sub, start) ==
    LET m == Find(text, sub, start)
    IN  IF m = -1 THEN << >>
        ELSE << m >> \o FindIter(text, sub, m + Len(sub))

\* text.replace(old, new)
RECURSIVE ReplaceFrom(_, _, _, _, _, _)
ReplaceFrom(text, old, new, ms, k, pos) ==
    IF k > Len(ms) THEN Slice(text, pos, Len(text))
    ELSE Slice(text, pos, ms[k]) \o new
         \o ReplaceFrom(text, old, new, ms, k + 1, ms[k] + Len(old))

StrReplace(text, old, new) ==
    ReplaceFrom(text, old, new, FindIter(text, old, 0), 1, 0)

----------------------------------------------------------------------------
(* The callback and re.sub *)

\* the block the callback builds around a statement
BlockAround(response_assignment) ==
    AuthCallLine \o NL \o Indent(20) \o IfLine \o NL \o Indent(24)
    \o ErrLine \o NL \o Indent(20) \o ElseLine \o NL \o Indent(24)
    \o response_assignment \o NL \o Indent(20) \o CloseBrace

\* the callback with the slice ending at response_end: the ";" is lost
replace_user_id_unterminated(content, m) ==
    LET full_match == Slice(content, m, m + Len(pattern))
        start_pos == m + Len(pattern)
        next_response == Find(content, ResponseEq, start_pos)
        response_end ==
            IF next_response # -1 THEN Find(content, Semicolon, next_response)
            ELSE -1
    IN  IF next_response # -1 /\ response_end # -1
        THEN BlockAround(Slice(content, next_response, response_end))
        ELSE full_match

\* the callback putting the block after the matched line instead of in its
\* place
replace_user_id_keeping_match(content, m) ==
    LET full_match == Slice(content, m, m + Len(pattern))
        start_pos == m + Len(pattern)
        next_response == Find(content, ResponseEq, start_pos)
        response_end ==
            IF next_response # -1 THEN Find(content, Semicolon, next_response)
            ELSE -1
    IN  IF next_response # -1 /\ response_end # -1
        THEN full_match \o NL
             \o BlockAround(Slice(content, next_response, response_end + 1))
        ELSE full_match

\* the callback without its last line: it returns None when it finds no
\* statement, and re.sub puts nothing for None
replace_user_id_returning_none(content, m) ==
    LET start_pos == m + Len(pattern)
        next_response == Find(content, ResponseEq, start_pos)
        response_end ==
            IF next_response # -1 THEN Find(content, Semicolon, next_response)
            ELSE -1
    IN  IF next_response # -1 /\ response_end # -1
        THEN BlockAround(Slice(content, next_response, response_end + 1))
        ELSE << >>

\* the callback searching from the start of the text, not from the match
replace_user_id_from_start(content, m) ==
    LET full_match == Slice(content, m, m + Len(pattern))
        next_response == Find(content, ResponseEq, 0)
        response_end ==
            IF next_response # -1 THEN Find(content, Semicolon, next_response)
            ELSE -1
    IN  IF next_response # -1 /\ response_end # -1
        THEN BlockAround(Slice(content, next_response, response_end + 1))
        ELSE full_match

\* the callback taking a statement only when it ends before the next anchor
replace_user_id_scoped(content, m) ==
    LET full_match == Slice(content, m, m + Len(pattern))
        start_pos == m + Len(pattern)
        next_anchor == Find(content, pattern, start_pos)
        next_response == Find(content, ResponseEq, start_pos)
        response_end ==
            IF next_response # -1 THEN Find(content, Semicolon, next_response)
            ELSE -1
    IN  IF /\ next_response # -1
           /\ response_end # -1
           /\ (next_anchor = -1 \/ response_end < next_anchor)
        THEN BlockAround(Slice(content, next_response, response_end + 1))
        ELSE full_match

\* lines 27-47; m is match.start(), content the text the script read
replace_user_id(content, m) ==
    LET full_match == Slice(content, m, m + Len(pattern))
        start_pos == m + Len(pattern)
        next_response == Find(content, ResponseEq, start_pos)
        response_end ==
            IF next_response # -1 THEN Find(content, Semicolon, next_response)
            ELSE -1
        response_assignment == Slice(content, next_response, response_end + 1)
    IN  IF next_response # -1 /\ response_end # -1
        THEN BlockAround(response_assignment)
        ELSE full_match

\* line 50: re.sub(pattern, replace_user_id, content); every match is handed
\* to the callback and the text between matches is copied
RECURSIVE SubFrom(_, _, _, _)
SubFrom(content, ms, k, pos) ==
    IF k > Len(ms) THEN Slice(content, pos, Len(content))
    ELSE Slice(content, pos, ms[k]) \o replace_user_id(content, ms[k])
         \o SubFrom(content, ms, k + 1, ms[k] + Len(pattern))

\* re.sub with count=1: only the first match is handed to the callback
re_sub_first_only(content) ==
    LET ms == FindIter(content, pattern, 0)
    IN  SubFrom(content, IF ms = << >> THEN ms ELSE << ms[1] >>, 1, 0)

re_sub(content) == SubFrom(content, FindIter(content, pattern, 0), 1, 0)

----------------------------------------------------------------------------
(* Text-mode file I/O *)

\* open(..., 'r'): universal newlines; the decoder replaces "\r\n" by "\n"
\* and then every remaining "\r" by "\n"
TranslateRead(bytes) ==
    StrReplace(StrReplace(bytes, << "\r", "\n" >>, NL), << "\r" >>, NL)

\* open(..., 'w') on POSIX: "\n" is written as os.linesep, which is "\n"
TranslateWrite(text) == text

\* a write of data at offset 0 of a file holding old
WriteAt0(old, data) ==
    data \o SubSeq(old, Len(data) + 1, Len(old))

----------------------------------------------------------------------------
(* The input files *)

\* a line break in DOS form and the statement  response = "ok";
OkStatement ==
    << "\r", "\n", "r", "e", "s", "p", "o", "n", "s", "e", " ", "=",
       " ", "\"", "o", "k", "\"", ";" >>

\* what input files are made of: the anchor, the lexeme, the terminator and
\* a complete statement on a line of its own (with a DOS line ending)
Chunks == << pattern, ResponseEq, Semicolon, OkStatement >>

RECURSIVE Flatten(_, _)
Flatten(cs, k) ==
    IF k > Len(cs) THEN << >> ELSE Chunks[cs[k]] \o Flatten(cs, k + 1)

Files(n) ==
    { Flatten(cs, 1) : cs \in UNION { [1..len -> 1..Len(Chunks)] : len \in 0..n } }

----------------------------------------------------------------------------
(* One invocation of the script, step by step *)

\* line 56
Ack ==
    << "R", "e", "p", "l", "a", "c", "e", "m", "e", "n", "t", " ",
       "c", "o", "m", "p", "l", "e", "t", "e", "d" >>


Procs == {1, 2}

VARIABLES
    exists,       \* server_with_auth.cpp exists
    writable,     \* and may be opened for writing
    file,         \* its bytes
    procs,        \* the invocations of the script that run
    pc,           \* where each invocation is
    content,      \* line 7
    new_content,  \* lines 21 and 50
    stdout,       \* what each invocation has printed
    syscalls      \* the truncations and writes the file has seen, in order

vars == << exists, writable, file, procs, pc, content, new_content, stdout,
           syscalls >>

InitProcs(ps, n) ==
    /\ procs = ps
    /\ exists \in BOOLEAN
    /\ writable \in BOOLEAN
    /\ file \in IF exists THEN Files(n) ELSE { << >> }
    /\ pc = [p \in ps |-> "start"]
    /\ content = [p \in ps |-> << >>]
    /\ new_content = [p \in ps |-> << >>]
    /\ stdout = [p \in ps |-> << >>]
    /\ syscalls = << >>

\* a single invocation
Init == InitProcs({1}, MaxChunks)

\* two invocations started on the same file
InitRace == InitProcs(Procs, MaxRaceChunks)

\* line 6: open(..., 'r') raises FileNotFoundError when the file is missing
OpenRead(p) ==
    /\ pc[p] = "start"
    /\ pc' = [pc EXCEPT ![p] = IF exists THEN "opened_r" ELSE "failed"]
    /\ UNCHANGED << exists, writable, file, procs, content, new_content,
                    stdout, syscalls >>

\* line 7: content = f.read()
Read(p) ==
    /\ pc[p] = "opened_r"
    /\ content' = [content EXCEPT ![p] = TranslateRead(file)]
    /\ pc' = [pc EXCEPT ![p] = "read"]
    /\ UNCHANGED << exists, writable, file, procs, new_content, stdout,
                    syscalls >>

\* line 21: new_content = content.replace(pattern, replacement)
Replace(p) ==
    /\ pc[p] = "read"
    /\ new_content' =
           [new_content EXCEPT ![p] = StrReplace(content[p], pattern, replacement)]
    /\ pc' = [pc EXCEPT ![p] = "replaced"]
    /\ UNCHANGED << exists, writable, file, procs, content, stdout, syscalls >>

\* the script without line 50: the literal replace of line 21 stands
SubOmitted(p) ==
    /\ pc[p] = "replaced"
    /\ pc' = [pc EXCEPT ![p] = "substituted"]
    /\ UNCHANGED << exists, writable, file, procs, content, new_content,
                    stdout, syscalls >>

\* line 50: new_content = re.sub(pattern, replace_user_id, content)
Sub(p) ==
    /\ pc[p] = "replaced"
    /\ new_content' = [new_content EXCEPT ![p] = re_sub(content[p])]
    /\ pc' = [pc EXCEPT ![p] = "substituted"]
    /\ UNCHANGED << exists, writable, file, procs, content, stdout, syscalls >>

\* the file opened with 'r+': nothing is truncated
OpenWriteNoTruncate(p) ==
    /\ pc[p] = "substituted"
    /\ IF writable
       THEN /\ syscalls' = Append(syscalls, << p, "truncate" >>)
            /\ pc' = [pc EXCEPT ![p] = "opened_w"]
       ELSE /\ pc' = [pc EXCEPT ![p] = "failed"]
            /\ UNCHANGED syscalls
    /\ UNCHANGED << exists, writable, file, procs, content, new_content,
                    stdout >>

\* the open and the write in a try block whose except passes
OpenWriteSwallowingError(p) ==
    /\ pc[p] = "substituted"
    /\ IF writable
       THEN /\ file' = << >>
            /\ syscalls' = Append(syscalls, << p, "truncate" >>)
            /\ pc' = [pc EXCEPT ![p] = "opened_w"]
       ELSE /\ pc' = [pc EXCEPT ![p] = "written"]
            /\ UNCHANGED << file, syscalls >>
    /\ UNCHANGED << exists, writable, procs, content, new_content, stdout >>

\* line 53: open(..., 'w') truncates the file, or raises PermissionError
OpenWrite(p) ==
    /\ pc[p] = "substituted"
    /\ IF writable
       THEN /\ file' = << >>
            /\ syscalls' = Append(syscalls, << p, "truncate" >>)
            /\ pc' = [pc EXCEPT ![p] = "opened_w"]
       ELSE /\ pc' = [pc EXCEPT ![p] = "failed"]
            /\ UNCHANGED << file, syscalls >>
    /\ UNCHANGED << exists, writable, procs, content, new_content, stdout >>

\* the file opened with 'a': every write goes to the end of the file
WriteAppending(p) ==
    /\ pc[p] = "opened_w"
    /\ file' = file \o TranslateWrite(new_content[p])
    /\ syscalls' = Append(syscalls, << p, "write" >>)
    /\ pc' = [pc EXCEPT ![p] = "written"]
    /\ UNCHANGED << exists, writable, procs, content, new_content, stdout >>

\* line 54 and the close that ends the with block: the text goes out in one
\* write at the offset of this open file, which is 0
Write(p) ==
    /\ pc[p] = "opened_w"
    /\ file' = WriteAt0(file, TranslateWrite(new_content[p]))
    /\ syscalls' = Append(syscalls, << p, "write" >>)
    /\ pc' = [pc EXCEPT ![p] = "written"]
    /\ UNCHANGED << exists, writable, procs, content, new_content, stdout >>

\* line 56: print("Replacement completed")
Acknowledge(p) ==
    /\ pc[p] = "written"
    /\ stdout' = [stdout EXCEPT ![p] = Append(stdout[p], Ack)]
    /\ pc' = [pc EXCEPT ![p] = "done"]
    /\ UNCHANGED << exists, writable, file, procs, content, new_content,
                    syscalls >>

\* every invocation runs the script top to bottom
Next ==
    \/ \E p \in procs : OpenRead(p)
    \/ \E p \in procs : Read(p)
    \/ \E p \in procs : Replace(p)
    \/ \E p \in procs : Sub(p)
    \/ \E p \in procs : OpenWrite(p)
    \/ \E p \in procs : Write(p)
    \/ \E p \in procs : Acknowledge(p)

Spec == Init /\ [][Next]_vars

SpecRace == InitRace /\ [][Next]_vars

----------------------------------------------------------------------------
(* Vocabulary of the properties: occurrences, following statements and the   *)
(* guard block, stated on texts and offsets without reference to the scan.  *)

\* sub occurs in text at offset i
OccursAt(text, sub, i) ==
    /\ 0 <= i
    /\ i + Len(sub) <= Len(text)
    /\ SubSeq(text, i + 1, i + Len(sub)) = sub

\* the offsets where sub, which is not empty, occurs in text
Occurrences(text, sub) ==
    {i \in 0..(Len(text) - Len(sub)) : text[i + 1] = sub[1] /\ OccursAt(text, sub, i)}

Least(S) == CHOOSE i \in S : \A j \in S : i <= j

\* what the properties need to know about a text: where the anchor, the
\* lexeme "response =" and the terminator ";" occur in it
Index(text) ==
    [ text |-> text,
      anchors |-> Occurrences(text, pattern),
      responses |-> Occurrences(text, ResponseEq),
      terminators |-> Occurrences(text, Semicolon) ]

\* the "response =" occurrences after the end of the anchor at offset a
ResponsesAfter(ix, a) == {r \in ix.responses : r >= a + Len(pattern)}

\* the ";" occurrences after the first of them
TerminatorsAfter(ix, a) ==
    {s \in ix.terminators : s > Least(ResponsesAfter(ix, a))}

\* the anchor at offset a has a following statement
HasStatement(ix, a) ==
    /\ ResponsesAfter(ix, a) # {}
    /\ TerminatorsAfter(ix, a) # {}

\* where it starts and where its ";" is
StatementStart(ix, a) == Least(ResponsesAfter(ix, a))
StatementEnd(ix, a) == Least(TerminatorsAfter(ix, a))

\* its text, from that "response =" through that ";"
Statement(ix, a) ==
    SubSeq(ix.text, StatementStart(ix, a) + 1, StatementEnd(ix, a) + 1)

\* the call the block declares user_id from
AuthCall ==
    << "a", "u", "t", "h", "e", "n", "t", "i", "c", "a", "t", "e",
       "_", "a", "n", "d", "_", "g", "e", "t", "_", "u", "s", "e",
       "r", "_", "i", "d", "(", "h", "e", "a", "d", "e", "r", "s",
       ")" >>

\* the test for an empty user_id
EmptyCheck ==
    << "i", "f", " ", "(", "u", "s", "e", "r", "_", "i", "d", ".",
       "e", "m", "p", "t", "y", "(", ")", ")" >>

\* the unauthorized-error payload
UnauthorizedPayload ==
    << "{", "\"", "e", "r", "r", "o", "r", "\"", ":", "\"", "U", "n",
       "a", "u", "t", "h", "o", "r", "i", "z", "e", "d", ":", " ",
       "I", "n", "v", "a", "l", "i", "d", " ", "o", "r", " ", "m",
       "i", "s", "s", "i", "n", "g", " ", "a", "u", "t", "h", "e",
       "n", "t", "i", "c", "a", "t", "i", "o", "n", " ", "t", "o",
       "k", "e", "n", "\"", "}" >>

\* a line break and the indentation of the next line
Gap(n) == << "\n" >> \o [i \in 1..n |-> " "]

\* the guard block around a statement: user_id declared from the call, the
\* unauthorized payload when it is empty, the statement in the else-branch
Guard(stmt) ==
    SubSeq(pattern, 1, 22) \o AuthCall \o << ";" >>
    \o Gap(20) \o EmptyCheck \o << " ", "{" >>
    \o Gap(24) \o ResponseEq \o << " ", "\"" >> \o UnauthorizedPayload
    \o << "\"", ";" >>
    \o Gap(20) \o << "}", " ", "e", "l", "s", "e", " ", "{" >>
    \o Gap(24) \o stmt
    \o Gap(20) \o << "}" >>

\* what stands in the output for the anchor at offset a
Segment(ix, a) ==
    IF HasStatement(ix, a) THEN Guard(Statement(ix, a)) ELSE pattern

\* by how much the anchors at the offsets S make the output grow
RECURSIVE Growth(_, _)
Growth(ix, S) ==
    IF S = {} THEN 0
    ELSE LET a == Least(S)
         IN  Len(Segment(ix, a)) - Len(pattern) + Growth(ix, S \ {a})

\* the offset in the output of offset i of the text
OutPos(ix, i) == i + Growth(ix, {a \in ix.anchors : a < i})

\* the stretches of the text outside the anchor occurrences, as <<from, to>>
Stretches(ix) ==
    { << s, IF {a \in ix.anchors : a >= s} = {} THEN Len(ix.text)
            ELSE Least({a \in ix.anchors : a >= s}) >> :
      s \in {0} \cup {a + Len(pattern) : a \in ix.anchors} }

\* out is the text with nothing changed outside the anchor occurrences
FramePreserved(ix, out) ==
    /\ Len(out) = OutPos(ix, Len(ix.text))
    /\ \A st \in Stretches(ix) :
           OccursAt(out, Slice(ix.text, st[1], st[2]), OutPos(ix, st[1]))

\* in out, the guard block around its own following statement stands where
\* the text had the anchor at offset a
PatchedAt(ix, out, a) ==
    /\ HasStatement(ix, a)
    /\ OccursAt(out, Guard(Statement(ix, a)), OutPos(ix, a))

\* in out, the anchor at offset a of the text is still there
LeftAt(ix, out, a) == OccursAt(out, pattern, OutPos(ix, a))

\* the stub assignment alone, without its marker comment
StubAssignment == SubSeq(pattern, 1, 43)

\* the invocations that have computed their output
Substituted ==
    {p \in procs : pc[p] \in {"substituted", "opened_w", "written", "done"}}

----------------------------------------------------------------------------
(* Properties *)

\* C1: when the text read contains no occurrence of the anchor, the
\* invocation succeeds and the file then holds exactly the text it read.
C1_NoAnchorNoChange ==
    \A p \in procs :
        Occurrences(content[p], pattern) = {} =>
            /\ p \in Substituted => new_content[p] = content[p]
            /\ pc[p] = "failed" => ~exists \/ ~writable
            /\ pc[p] \in {"written", "done"} /\ procs = {p} => file = content[p]

\* C1 witness: a text with the lexeme, the terminator and a line break but
\* no anchor has been written back.
C1_Witness ==
    /\ procs = {1}
    /\ pc[1] = "done"
    /\ Occurrences(content[1], pattern) = {}
    /\ Occurrences(content[1], ResponseEq) # {}
    /\ Occurrences(content[1], NL) # {}

\* C2 as claimed: every anchor with a following statement is replaced by the
\* guard block (user_id declared from authenticate_and_get_user_id(headers),
\* the unauthorized payload when it is empty, the statement verbatim in the
\* else-branch), and the block does not contain the stub assignment.
C2_BlockWithoutStubAssignment ==
    \A p \in Substituted :
        LET ix == Index(content[p])
        IN  \A a \in ix.anchors :
                HasStatement(ix, a) =>
                    /\ PatchedAt(ix, new_content[p], a)
                    /\ Occurrences(Guard(Statement(ix, a)), StubAssignment) = {}

\* C2 amended: every anchor with a following statement is replaced by the
\* guard block, with the statement verbatim in the else-branch, and the block
\* does not contain the anchor (the stub assignment with its marker comment).
C2_GuardBlock ==
    \A p \in Substituted :
        LET ix == Index(content[p])
        IN  \A a \in ix.anchors :
                HasStatement(ix, a) =>
                    /\ PatchedAt(ix, new_content[p], a)
                    /\ Occurrences(Guard(Statement(ix, a)), pattern) = {}

\* C2 witness: an anchor was replaced by a block whose else-branch holds a
\* statement that runs into the next anchor, stub assignment included, and
\* another by a block around a statement on a line of its own.
C2_Witness ==
    /\ procs = {1}
    /\ pc[1] = "done"
    /\ LET ix == Index(content[1])
       IN  /\ \E a \in ix.anchors :
                  /\ PatchedAt(ix, new_content[1], a)
                  /\ Occurrences(Statement(ix, a), StubAssignment) # {}
           /\ \E a \in ix.anchors :
                  /\ PatchedAt(ix, new_content[1], a)
                  /\ Statement(ix, a) = SubSeq(OkStatement, 3, Len(OkStatement))

\* C3 as claimed: the output of an invocation contains no occurrence of the
\* anchor.
C3_OutputHasNoAnchor ==
    \A p \in Substituted : Occurrences(new_content[p], pattern) = {}

\* C3 amended: the only occurrences of the anchor in the output are the ones
\* left unpatched for want of a following statement, and an invocation that
\* reads the output of another leaves it unchanged.
C3_SecondApplicationNoOp ==
    \A p \in Substituted :
        LET ix == Index(content[p])
        IN  /\ Occurrences(new_content[p], pattern) =
                   {OutPos(ix, a) : a \in {b \in ix.anchors : ~HasStatement(ix, b)}}
            /\ \A q \in Substituted :
                   content[q] = new_content[p] => new_content[q] = content[q]

\* C3 witness: the second invocation has read and processed the output of
\* the first, in which one anchor was patched and one left.
C3_Witness ==
    /\ pc[1] = "done"
    /\ pc[2] = "done"
    /\ content[2] = new_content[1]
    /\ new_content[1] # content[1]
    /\ Occurrences(new_content[1], pattern) # {}

\* C4: an anchor with no "response =" after it, or with no ";" after the
\* next "response =", is left in the output as it was, and nothing fails.
C4_UnterminatedLeftAlone ==
    \A p \in procs :
        /\ pc[p] = "failed" => ~exists \/ ~writable
        /\ p \in Substituted =>
               LET ix == Index(content[p])
               IN  \A a \in ix.anchors :
                       ~HasStatement(ix, a) => LeftAt(ix, new_content[p], a)

\* C4 witness: an anchor followed by "response =" and no ";" was left alone.
C4_Witness ==
    /\ procs = {1}
    /\ pc[1] = "done"
    /\ LET ix == Index(content[1])
       IN  \E a \in ix.anchors :
               /\ ResponsesAfter(ix, a) # {}
               /\ ~HasStatement(ix, a)
               /\ LeftAt(ix, new_content[1], a)

\* the text has two anchors, each with a statement of its own before the next
WellFormedPairs(ix) ==
    /\ Cardinality(ix.anchors) = 2
    /\ LET a1 == Least(ix.anchors)
           a2 == Least(ix.anchors \ {a1})
       IN  /\ HasStatement(ix, a1)
           /\ HasStatement(ix, a2)
           /\ StatementEnd(ix, a1) < a2

\* C5: with two anchors, each followed by its own statement before the next
\* anchor, the output is the text read with each anchor replaced by the block
\* around its own statement and nothing else changed.
C5_TwoPairsIndependent ==
    \A p \in Substituted :
        LET ix == Index(content[p])
            t == content[p]
            a1 == Least(ix.anchors)
            a2 == Least(ix.anchors \ {a1})
        IN  WellFormedPairs(ix) =>
                new_content[p] =
                    Slice(t, 0, a1) \o Guard(Statement(ix, a1))
                    \o Slice(t, a1 + Len(pattern), a2) \o Guard(Statement(ix, a2))
                    \o Slice(t, a2 + Len(pattern), Len(t))

\* C5 witness: two pairs with different statements were both transformed.
C5_Witness ==
    /\ procs = {1}
    /\ pc[1] = "done"
    /\ LET ix == Index(content[1])
           a1 == Least(ix.anchors)
           a2 == Least(ix.anchors \ {a1})
       IN  /\ WellFormedPairs(ix)
           /\ Statement(ix, a1) # Statement(ix, a2)
           /\ PatchedAt(ix, new_content[1], a1)
           /\ PatchedAt(ix, new_content[1], a2)

\* the number of the system call op in the order the file saw them
CallNo(op) == CHOOSE i \in 1..Len(syscalls) : syscalls[i] = op

Called(op) == \E i \in 1..Len(syscalls) : syscalls[i] = op

\* C6: the acknowledgment is printed only by an invocation that has read and
\* written the file; one whose open for reading or for writing fails ends in
\* failure and never prints it.
C6_AcknowledgedOnlyAfterWrite ==
    \A p \in procs :
        /\ stdout[p] \in {<< >>, << Ack >>}
        /\ stdout[p] # << >> =>
               /\ pc[p] = "done"
               /\ exists
               /\ writable
               /\ Called(<< p, "write" >>)
        /\ ~exists => pc[p] \in {"start", "failed"}
        /\ ~writable =>
               pc[p] \in {"start", "opened_r", "read", "replaced", "substituted",
                          "failed"}
        /\ pc[p] = "failed" => stdout[p] = << >> /\ ~Called(<< p, "write" >>)

\* C6 witness: the file was read but could not be opened for writing, and the
\* invocation failed without printing.
C6_Witness ==
    /\ ~writable
    /\ pc[1] = "failed"
    /\ Occurrences(content[1], pattern) # {}
    /\ stdout[1] = << >>

\* C7 as claimed: when an anchor is skipped, every other anchor of the file
\* is patched.
C7_OnlyOneSkipped ==
    \A p \in Substituted :
        LET ix == Index(content[p])
        IN  \A a \in ix.anchors :
                LeftAt(ix, new_content[p], a) =>
                    \A b \in ix.anchors \ {a} : PatchedAt(ix, new_content[p], b)

\* C7 amended: when an anchor is skipped, every other anchor that has a
\* following statement of its own is patched, the others are left as they
\* were, and nothing fails.
C7_SkipIsPerOccurrence ==
    \A p \in procs :
        /\ pc[p] = "failed" => ~exists \/ ~writable
        /\ p \in Substituted =>
               LET ix == Index(content[p])
               IN  \A a \in ix.anchors :
                       LeftAt(ix, new_content[p], a) =>
                           \A b \in ix.anchors \ {a} :
                               IF HasStatement(ix, b)
                               THEN PatchedAt(ix, new_content[p], b)
                               ELSE LeftAt(ix, new_content[p], b)

\* C7 witness: two anchors were patched and a third one skipped.
C7_Witness ==
    /\ procs = {1}
    /\ pc[1] = "done"
    /\ LET ix == Index(content[1])
       IN  /\ \E a \in ix.anchors : LeftAt(ix, new_content[1], a)
           /\ Cardinality({b \in ix.anchors : PatchedAt(ix, new_content[1], b)}) = 2

AllDone == \A p \in procs : pc[p] = "done"

\* the invocation whose write came last
LastWriter == syscalls[Len(syscalls)][1]

\* C8 as claimed: of two invocations on an accessible file none fails, and
\* when both are done the file holds the text of the last writer.
C8_LastWriterWins ==
    exists /\ writable =>
        /\ \A p \in procs : pc[p] # "failed"
        /\ AllDone => file = new_content[LastWriter]

\* C8 amended: of two invocations on an accessible file none fails, and
\* when both are done the file holds the text of the last writer,
\* followed, when the other invocation wrote after the last writer's
\* truncation, by what the other wrote beyond the length of that text.
C8_LastWriterOverlays ==
    exists /\ writable =>
        /\ \A p \in procs : pc[p] # "failed"
        /\ AllDone =>
               LET l == LastWriter
                   last == new_content[l]
               IN  file =
                       last \o
                       IF \E o \in procs \ {l} :
                              CallNo(<< o, "write" >>) > CallNo(<< l, "truncate" >>)
                       THEN LET o == CHOOSE o \in procs \ {l} : TRUE
                            IN  SubSeq(new_content[o], Len(last) + 1,
                                       Len(new_content[o]))
                       ELSE << >>

\* C8 witness: both invocations are done and the file holds more than the
\* last writer wrote.
C8_Witness ==
    /\ procs = Procs
    /\ AllDone
    /\ file # new_content[LastWriter]
    /\ Occurrences(file, AuthCall) # {}

\* in out, the following statement of the anchor at offset a is still where
\* the text had it
StatementKept(ix, out, a) ==
    OccursAt(out, Statement(ix, a), OutPos(ix, StatementStart(ix, a)))

\* the anchors that start inside the following statement of the anchor at a
\* and are themselves patched
PatchedInside(ix, a) ==
    {b \in ix.anchors : /\ StatementStart(ix, a) < b
                        /\ b <= StatementEnd(ix, a)
                        /\ HasStatement(ix, b)}

\* C9 as claimed: the output is the text read with each patched anchor
\* replaced by its block and nothing else changed, and every captured
\* statement is also still at its original place.
C9_StatementKeptInPlace ==
    \A p \in Substituted :
        LET ix == Index(content[p])
        IN  /\ FramePreserved(ix, new_content[p])
            /\ \A a \in ix.anchors :
                   IF HasStatement(ix, a)
                   THEN /\ PatchedAt(ix, new_content[p], a)
                        /\ StatementKept(ix, new_content[p], a)
                   ELSE LeftAt(ix, new_content[p], a)

\* C9 amended: the output is the text read with each patched anchor replaced
\* by its block and nothing else changed; a captured statement is also still
\* at its original place unless it runs into a later anchor that is patched.
C9_OnlyAnchorSpansChange ==
    \A p \in Substituted :
        LET ix == Index(content[p])
        IN  /\ FramePreserved(ix, new_content[p])
            /\ \A a \in ix.anchors :
                   IF HasStatement(ix, a)
                   THEN /\ PatchedAt(ix, new_content[p], a)
                        /\ PatchedInside(ix, a) = {} =>
                               StatementKept(ix, new_content[p], a)
                   ELSE LeftAt(ix, new_content[p], a)

\* C9 witness: one captured statement occurs in its block and at its original
\* place, another runs into a patched anchor.
C9_Witness ==
    /\ procs = {1}
    /\ pc[1] = "done"
    /\ LET ix == Index(content[1])
       IN  /\ \E a \in ix.anchors :
                  /\ PatchedAt(ix, new_content[1], a)
                  /\ StatementKept(ix, new_content[1], a)
           /\ \E a \in ix.anchors :
                  /\ PatchedAt(ix, new_content[1], a)
                  /\ PatchedInside(ix, a) # {}

\* C10: the skipped anchors are the last ones: after an anchor left in the
\* output every later anchor is left too, and an anchor with a "response ="
\* between it and a later anchor is patched.
C10_SkippedFormSuffix ==
    \A p \in Substituted :
        LET ix == Index(content[p])
        IN  \A a \in ix.anchors :
                \A b \in {c \in ix.anchors : c > a} :
                    /\ LeftAt(ix, new_content[p], a) => LeftAt(ix, new_content[p], b)
                    /\ {r \in ResponsesAfter(ix, a) : r < b} # {} =>
                           PatchedAt(ix, new_content[p], a)

\* C10 witness: an anchor was patched with a statement that ends at the ";"
\* of the next anchor, which was left.
C10_Witness ==
    /\ procs = {1}
    /\ pc[1] = "done"
    /\ LET ix == Index(content[1])
       IN  \E a \in ix.anchors :
               \E b \in {c \in ix.anchors : c > a} :
                   /\ PatchedAt(ix, new_content[1], a)
                   /\ StatementEnd(ix, a) = b + 42
                   /\ LeftAt(ix, new_content[1], b)

====
